---- MODULE Spec2Model ----
(***************************************************************************)
(* TGMediaDownloader (src/bot.py): the media retrieval-and-delivery        *)
(* pipeline of the bot, as a state machine.                                *)
(*                                                                         *)
(* Strings that the code computes on (message texts, URLs, hosts, file     *)
(* names, captions) are sequences of one-character strings, so that the    *)
(* regular-expression search, the stripping, the host parsing and the      *)
(* suffix classification are computed the way the code computes them.      *)
(* Strings that the code only passes around (fixed user-facing texts,      *)
(* format expressions) are TLA+ strings.                                   *)
(***************************************************************************)
EXTENDS Integers, Sequences, FiniteSets, TLC

(***************************************************************************)
(* Bounds of the model.                                                    *)
(***************************************************************************)
\* Number of pipeline runs (requests) one behaviour starts.
MaxReq == 2
\* Number of button presses that change a stored preference.
MaxChanges == 1
\* Number of replies to rejected texts and answers to inline queries.
MaxReplies == 2
\* Number of pieces a text given to extract_url is put together from.
MaxPieces == 4

(***************************************************************************)
(* Characters and string helpers.                                          *)
(***************************************************************************)
UpperLower ==
  {<<"A", "a">>, <<"B", "b">>, <<"C", "c">>, <<"D", "d">>, <<"E", "e">>,
   <<"F", "f">>, <<"G", "g">>, <<"H", "h">>, <<"I", "i">>, <<"J", "j">>,
   <<"K", "k">>, <<"L", "l">>, <<"M", "m">>, <<"N", "n">>, <<"O", "o">>,
   <<"P", "p">>, <<"Q", "q">>, <<"R", "r">>, <<"S", "s">>, <<"T", "t">>,
   <<"U", "u">>, <<"V", "v">>, <<"W", "w">>, <<"X", "x">>, <<"Y", "y">>,
   <<"Z", "z">>}

\* str.lower() on one character.
LowerChar(c) ==
  IF \E p \in UpperLower : p[1] = c
    THEN (CHOOSE p \in UpperLower : p[1] = c)[2]
    ELSE c

\* str.lower()
Lower(s) == [i \in 1..Len(s) |-> LowerChar(s[i])]

\* str.startswith(p), at offset i (1-based)
HasPrefixAt(s, p, i) ==
  /\ i >= 1
  /\ i + Len(p) - 1 <= Len(s)
  /\ SubSeq(s, i, i + Len(p) - 1) = p

StartsWith(s, p) == HasPrefixAt(s, p, 1)

\* str.endswith(p)
EndsWith(s, p) ==
  /\ Len(p) <= Len(s)
  /\ SubSeq(s, Len(s) - Len(p) + 1, Len(s)) = p

\* First index >= from whose character is in cs; 0 when there is none.
FirstIndexIn(s, cs, from) ==
  LET hits == {i \in from..Len(s) : s[i] \in cs}
  IN  IF hits = {} THEN 0 ELSE CHOOSE i \in hits : \A j \in hits : i <= j

\* Last index whose character is in cs; 0 when there is none.
LastIndexIn(s, cs) ==
  LET hits == {i \in 1..Len(s) : s[i] \in cs}
  IN  IF hits = {} THEN 0 ELSE CHOOSE i \in hits : \A j \in hits : i >= j

\* s.partition(c)[0]
BeforeFirst(s, c) ==
  LET i == FirstIndexIn(s, {c}, 1)
  IN  IF i = 0 THEN s ELSE SubSeq(s, 1, i - 1)

\* s.rpartition(c)[2]
AfterLast(s, c) ==
  LET i == LastIndexIn(s, {c})
  IN  IF i = 0 THEN s ELSE SubSeq(s, i + 1, Len(s))

\* Optional values: None is the empty tuple, a value v is the 1-tuple <<v>>.
None == <<>>
Some(v) == <<v>>

(***************************************************************************)
(* Module constants of bot.py.                                             *)
(***************************************************************************)
\* \s of the re module, restricted to the whitespace the inputs may hold.
Whitespace == {" ", "\t", "\n", "\r", "\f"}

SchemeHttp == <<"h", "t", "t", "p", ":", "/", "/">>
SchemeHttps == <<"h", "t", "t", "p", "s", ":", "/", "/">>

SUPPORTED_DOMAINS ==
  {<<"i", "n", "s", "t", "a", "g", "r", "a", "m", ".", "c", "o", "m">>,
   <<"i", "n", "s", "t", "a", "g", "r", ".", "a", "m">>,
   <<"t", "i", "k", "t", "o", "k", ".", "c", "o", "m">>,
   <<"y", "o", "u", "t", "u", "b", "e", ".", "c", "o", "m">>,
   <<"y", "o", "u", "t", "u", ".", "b", "e">>}

IMAGE_EXTENSIONS ==
  {<<".", "j", "p", "g">>, <<".", "j", "p", "e", "g">>, <<".", "p", "n", "g">>,
   <<".", "w", "e", "b", "p">>, <<".", "b", "m", "p">>}

VIDEO_EXTENSIONS ==
  {<<".", "m", "p", "4">>, <<".", "m", "o", "v">>, <<".", "m", "4", "v">>,
   <<".", "w", "e", "b", "m">>, <<".", "m", "k", "v">>, <<".", "a", "v", "i">>,
   <<".", "g", "i", "f">>}

\* Characters extract_url strips from the end of a match.
TrailingPunctuation == {")", ".", ","}

\* Telegram's caption limit, the slice bound of the caption.
CaptionLimit == 1024

\* MAX_FILE_SIZE_MB default of load_settings.
MaxFileSizeMb == 49
max_size_bytes == MaxFileSizeMb * 1024 * 1024

\* COOKIES_FILE is unset: load_settings returns None for it.
cookies_file == None

(***************************************************************************)
(* extract_url                                                             *)
(***************************************************************************)
\* Length of the scheme "https?://" (re.IGNORECASE) matched at offset i, or 0.
SchemeLenAt(text, i) ==
  IF i + Len(SchemeHttps) - 1 <= Len(text)
       /\ Lower(SubSeq(text, i, i + Len(SchemeHttps) - 1)) = SchemeHttps
    THEN Len(SchemeHttps)
  ELSE IF i + Len(SchemeHttp) - 1 <= Len(text)
       /\ Lower(SubSeq(text, i, i + Len(SchemeHttp) - 1)) = SchemeHttp
    THEN Len(SchemeHttp)
  ELSE 0

\* URL_PATTERN matches at offset i: the scheme and at least one non-space.
PatternMatchesAt(text, i) ==
  LET n == SchemeLenAt(text, i)
  IN  /\ n > 0
      /\ i + n <= Len(text)
      /\ text[i + n] \notin Whitespace

\* End of the greedy run [^\s]+ that starts at offset k.
RunEnd(text, k) ==
  LET sp == FirstIndexIn(text, Whitespace, k)
  IN  IF sp = 0 THEN Len(text) ELSE sp - 1

\* URL_PATTERN.search(text): the leftmost match, as Optional.
PatternSearch(text) ==
  LET starts == {i \in 1..Len(text) : PatternMatchesAt(text, i)}
  IN  IF starts = {} THEN None
      ELSE LET i == CHOOSE a \in starts : \A b \in starts : a <= b
           IN  Some(SubSeq(text, i, RunEnd(text, i + SchemeLenAt(text, i))))

\* A variant of StripTrailing that removes one character at most.
StripTrailingOnce(url) ==
  IF url # <<>> /\ url[Len(url)] \in TrailingPunctuation
    THEN SubSeq(url, 1, Len(url) - 1)
    ELSE url

\* while url and url[-1] in ").,": url = url[:-1]
RECURSIVE StripTrailing(_)
StripTrailing(url) ==
  IF url # <<>> /\ url[Len(url)] \in TrailingPunctuation
    THEN StripTrailing(SubSeq(url, 1, Len(url) - 1))
    ELSE url

extract_url(text) ==
  LET m == PatternSearch(text)
  IN  IF m = None THEN None ELSE Some(StripTrailing(m[1]))

\* "if not url": None and the empty string are both falsy.
Falsy(optUrl) == optUrl = None \/ optUrl[1] = <<>>

(***************************************************************************)
(* is_supported_source                                                     *)
(***************************************************************************)
\* urlparse(url).netloc of a URL that starts with a http(s):// scheme.
Netloc(url) ==
  LET n == SchemeLenAt(url, 1)
      rest == SubSeq(url, n + 1, Len(url))
      d == FirstIndexIn(rest, {"/", "?", "#"}, 1)
  IN  IF n = 0 THEN <<>>
      ELSE IF d = 0 THEN rest ELSE SubSeq(rest, 1, d - 1)

\* A variant of Hostname that keeps the letter case of the host.
HostnameAsTyped(url) ==
  LET hostinfo == AfterLast(Netloc(url), "@")
  IN  BeforeFirst(hostinfo, ":")

\* (urlparse(url).hostname or "").lower()
Hostname(url) ==
  LET hostinfo == AfterLast(Netloc(url), "@")
  IN  Lower(BeforeFirst(hostinfo, ":"))

\* A variant of is_supported_source that accepts every host.
is_supported_source_any(url) == TRUE

\* any(host == domain or host.endswith(f".{domain}") for domain in SUPPORTED_DOMAINS)
is_supported_source(url) ==
  LET host == Hostname(url)
  IN  \E domain \in SUPPORTED_DOMAINS :
        host = domain \/ EndsWith(host, <<".">> \o domain)

(***************************************************************************)
(* tg_media_kind                                                           *)
(***************************************************************************)
\* Path.suffix of a file name: from the last dot, unless the name starts with it.
Suffix(name) ==
  LET i == LastIndexIn(name, {"."})
  IN  IF i <= 1 \/ i = Len(name) THEN <<>> ELSE SubSeq(name, i, Len(name))

tg_media_kind(file_name) ==
  LET ext == Lower(Suffix(file_name))
  IN  IF ext \in IMAGE_EXTENSIONS THEN "image"
      ELSE IF ext \in VIDEO_EXTENSIONS THEN "video"
      ELSE "document"

(***************************************************************************)
(* Inputs of the model.                                                    *)
(***************************************************************************)
Users == {1, 2}

\* "check this https://youtu.be/abc123!"
TextScenario1 ==
  <<"c", "h", "e", "c", "k", " ", "t", "h", "i", "s", " ", "h", "t", "t", "p",
    "s", ":", "/", "/", "y", "o", "u", "t", "u", ".", "b", "e", "/", "a", "b",
    "c", "1", "2", "3", "!">>
\* "https://vimeo.com/123"
TextVimeo ==
  <<"h", "t", "t", "p", "s", ":", "/", "/", "v", "i", "m", "e", "o", ".", "c",
    "o", "m", "/", "1", "2", "3">>
\* "hello"
TextNoUrl == <<"h", "e", "l", "l", "o">>
\* "/start"
TextCommand == <<"/", "s", "t", "a", "r", "t">>

Texts == {TextScenario1, TextVimeo, TextNoUrl, TextCommand}

\* extract_url, is_supported_source and text.startswith("/") on the input
\* texts, computed once.
ExtractedUrl == [t \in Texts |-> extract_url(t)]
SupportedText ==
  [t \in Texts |-> ~Falsy(ExtractedUrl[t]) /\ is_supported_source(ExtractedUrl[t][1])]
CommandText == [t \in Texts |-> StartsWith(t, <<"/">>)]

\* The URLs the handlers pass to the pipeline.
Urls == {ExtractedUrl[t][1] : t \in {x \in Texts : ~Falsy(ExtractedUrl[x])}}

\* Texts typed after the bot's name as inline queries.
InlineQueries == {TextScenario1, TextVimeo, TextNoUrl}

ChatTypes == {"private", "group"}

\* callback_data of a button press: the seven buttons of the settings
\* keyboard, and payloads that pass the route filter but name no value.
ButtonData ==
  {<<"q", "b", "e", "s", "t">>, <<"q", "7", "2", "0">>, <<"q", "4", "8", "0">>,
   <<"l", "i", "n", "k", "0">>, <<"l", "i", "n", "k", "1">>,
   <<"f", "i", "l", "e", "0">>, <<"f", "i", "l", "e", "1">>,
   <<"q", "1", "0", "8", "0">>, <<"l", "i", "n", "k">>, <<"f", "i", "l", "e", "2">>}

\* Names of the files the extraction engine may write into the workspace.
FileNames ==
  {<<"m", "e", "d", "i", "a", ".", "m", "p", "4">>,
   <<"m", "e", "d", "i", "a", ".", "J", "P", "G">>,
   <<"m", "e", "d", "i", "a", ".", "x", "y", "z">>}

\* tg_media_kind on the engine's file names, computed once.
MediaKind == [n \in FileNames |-> tg_media_kind(n)]

\* How a call into the messaging transport ends: it returns, it raises
\* TelegramBadRequest, or it raises any other exception (network error,
\* flood control, ...).
Outcomes == {"ok", "TelegramBadRequest", "other"}

\* How download_sync ends: a file the engine reports, DownloadError raised
\* by the engine, a resolved path that is no file (RuntimeError), or any
\* other exception.
EngineOutcomes ==
  [kind : {"file"}, name : FileNames]
    \cup [kind : {"DownloadError", "missing", "other"}, name : {<<>>}]

\* Directory names tempfile may hand out.
DirNames == 1..MaxReq

\* CACHE_CHAT_ID of the configuration; a private chat's id is the user's id.
cache_chat_id == -100

(***************************************************************************)
(* User-facing texts (the code's Russian texts, named in English).         *)
(***************************************************************************)
\* "Скачиваю..."
FetchingText == "fetching"
\* "Не удалось скачать видео."
DownloadFailedText == "could not download"
\* "Ошибка Telegram, попробуйте еще раз."
TelegramErrorText == "messaging error, try again"
\* "Файл не найден после загрузки."
FileNotFoundText == "file not found after download"

FailureTexts == {DownloadFailedText, TelegramErrorText, FileNotFoundText}

\* "Source: "
SourcePrefix == <<"S", "o", "u", "r", "c", "e", ":", " ">>

(***************************************************************************)
(* State.                                                                  *)
(***************************************************************************)
VARIABLES
  per_user_settings,  \* dict user id -> UserSettings (main)
  task,               \* per request: the arguments of handle_chosen / handle_text_link
  pc,                 \* per request: the await the pipeline coroutine is at
  local,              \* per request: the local variables of the pipeline coroutine
  message,            \* per request: the user-visible message
  edits,              \* per request: the calls that set the message, with their result
  fs,                 \* the temporary directories that exist, with their files
  uploads,            \* per request: the file uploads issued to the transport
  engine_calls,       \* per request: the number of calls of download_sync
  handler,            \* per request: the event handler that started it
  failure,            \* per request: the failure that left the try body, if any
  loop_owner,         \* the coroutine that holds the event loop's thread, if any
  changes,            \* number of button presses that changed a preference
  replies,            \* the replies to rejected texts and the answers to inline queries
  call                \* the function application under evaluation, if any

vars ==
  <<per_user_settings, task, pc, local,
    message, edits, fs, uploads, engine_calls, handler, failure, loop_owner,
    changes, replies, call>>

Requests == DOMAIN task

(***************************************************************************)
(* UserSettings and the preference store.                                  *)
(***************************************************************************)
QBest == <<"b", "e", "s", "t">>
Q720 == <<"7", "2", "0">>
Q480 == <<"4", "8", "0">>
Qualities == {QBest, Q720, Q480}

\* UserSettings()
DefaultSettings ==
  [video_quality |-> QBest, add_link |-> TRUE, send_as_file |-> FALSE]

\* The dict after get_user_settings(user_settings, user_id).
StoreAfterGet(store, user_id) ==
  IF user_id \in DOMAIN store THEN store
  ELSE [u \in DOMAIN store \cup {user_id} |->
          IF u = user_id THEN DefaultSettings ELSE store[u]]

\* The value get_user_settings returns.
get_user_settings(store, user_id) == StoreAfterGet(store, user_id)[user_id]

(***************************************************************************)
(* build_download_options                                                  *)
(***************************************************************************)
\* A variant of FormatExpression that asks for separate streams whether or
\* not ffmpeg is there.
FormatExpressionMerging(ffmpeg, video_quality) ==
  IF video_quality = Q720
    THEN "bv*[height<=720]+ba/b[height<=720]/best[height<=720]"
  ELSE IF video_quality = Q480
    THEN "bv*[height<=480]+ba/b[height<=480]/best[height<=480]"
  ELSE "bv*+ba/best"

\* options["format"]
FormatExpression(ffmpeg, video_quality) ==
  IF ffmpeg
    THEN IF video_quality = Q720
           THEN "bv*[height<=720]+ba/b[height<=720]/best[height<=720]"
         ELSE IF video_quality = Q480
           THEN "bv*[height<=480]+ba/b[height<=480]/best[height<=480]"
         ELSE "bv*+ba/best"
    ELSE IF video_quality = Q720 THEN "best[height<=720]/best"
         ELSE IF video_quality = Q480 THEN "best[height<=480]/best"
         ELSE "best"

\* The options dict; a key the code does not set is None.
build_download_options(tmp_path, max_size, cookies, video_quality, ffmpeg) ==
  [outtmpl |-> [dir |-> tmp_path, name |-> "media.%(ext)s"],
   noplaylist |-> TRUE,
   quiet |-> TRUE,
   no_warnings |-> TRUE,
   max_filesize |-> max_size,
   format |-> FormatExpression(ffmpeg, video_quality),
   merge_output_format |-> IF ffmpeg THEN Some("mp4") ELSE None,
   cookiefile |-> IF cookies # None THEN cookies ELSE None]

(***************************************************************************)
(* Pieces of the two pipeline coroutines.                                  *)
(***************************************************************************)
\* dataclasses.replace(settings): a new object with the same field values.
replace(settings) == settings

\* A variant of user_settings that reads the stored object of the user.
user_settings_live(r) == per_user_settings[task[r].user]

\* The user_settings parameter of handle_chosen / handle_text_link, as the
\* coroutine of request r reads it.
user_settings(r) == task[r].user_settings

\* URLs so long that "Source: " and the URL reach, meet and pass the slice
\* bound of the caption: the scheme and a host of n letters.
LongUrl(n) == SchemeHttps \o [i \in 1..n |-> "a"]
LongUrls ==
  {LongUrl(n) : n \in {CaptionLimit - 17, CaptionLimit - 16, CaptionLimit - 15,
                       2 * CaptionLimit}}

\* A variant of SourceCaption without the slice.
SourceCaptionWhole(url) == SourcePrefix \o url

\* f"Source: {url}"[:1024]
SourceCaption(url) ==
  LET c == SourcePrefix \o url
  IN  SubSeq(c, 1, IF Len(c) < CaptionLimit THEN Len(c) ELSE CaptionLimit)

\* SourceCaption on the URLs of the pipeline and on the long URLs, computed
\* once.
SourceCaptionOf == [url \in Urls \cup LongUrls |-> SourceCaption(url)]

\* f"Source: {url}"[:1024] if user_settings.add_link and media_kind == "video" else None
Caption(url, settings, media_kind) ==
  IF settings.add_link /\ media_kind = "video" THEN Some(SourceCaptionOf[url]) ELSE None

\* The branch of the if/elif/else that picks the media type.
DeliveryType(media_kind, settings) ==
  IF media_kind = "image" THEN "photo"
  ELSE IF media_kind = "video" /\ ~settings.send_as_file THEN "video"
  ELSE "document"

\* A variant of mkdtemp that always picks the same name.
mkdtemp_fixed(fsys) == {1}

\* The names tempfile.TemporaryDirectory may pick: a name that does not
\* exist. Names are only compared with each other, so the least unused one
\* stands for any of them.
mkdtemp(fsys) ==
  {d \in DirNames \ DOMAIN fsys : \A e \in DirNames \ DOMAIN fsys : d <= e}

\* A variant of RemoveTree that removes every directory.
RemoveTreeAll(fsys, d) == [x \in {} |-> fsys[x]]

\* shutil.rmtree(d)
RemoveTree(fsys, d) == [x \in DOMAIN fsys \ {d} |-> fsys[x]]

\* A variant of WithExit that removes the directory on the normal exit only.
WithExitOnSuccess(fsys, d, raised) == IF raised THEN fsys ELSE RemoveTree(fsys, d)

\* Leaving the "with tempfile.TemporaryDirectory" block, normally or by an
\* exception (raised): the directory is removed.
WithExit(fsys, d, raised) == RemoveTree(fsys, d)

\* A variant of to_thread that runs the call in the loop's own thread.
to_thread_inline(owner, r) == Some(r)

\* asyncio.to_thread(download_sync, ...): the call runs in a worker thread
\* and the loop's thread stays free; the value is the loop's new owner.
to_thread(owner, r) == owner

\* Path.is_file()
is_file(fsys, path) ==
  /\ path.dir \in DOMAIN fsys
  /\ \E f \in fsys[path.dir].files : f.name = path.name

\* The bytes FSInputFile(path) reads.
FileContent(fsys, path) ==
  (CHOOSE f \in fsys[path.dir].files : f.name = path.name).content

\* The engine writes its output file into the directory of outtmpl.
WriteFile(fsys, d, name, r) ==
  IF d \in DOMAIN fsys
    THEN [fsys EXCEPT ![d].files =
            {f \in @ : f.name # name} \cup {[name |-> name, content |-> [by |-> r]]}]
    ELSE fsys

\* A variant of FailureText with the texts of two clauses exchanged.
FailureTextExchanged(exc) ==
  IF exc = "DownloadError" THEN TelegramErrorText
  ELSE IF exc = "TelegramBadRequest" THEN DownloadFailedText
  ELSE FileNotFoundText

\* The text each except clause puts into the message.
FailureText(exc) ==
  IF exc = "DownloadError" THEN DownloadFailedText
  ELSE IF exc = "TelegramBadRequest" THEN TelegramErrorText
  ELSE FileNotFoundText

\* States of the coroutine.
ExceptStates ==
  {"except_DownloadError", "except_TelegramBadRequest", "except_RuntimeError"}
ExceptState(exc) ==
  IF exc = "DownloadError" THEN "except_DownloadError"
  ELSE IF exc = "TelegramBadRequest" THEN "except_TelegramBadRequest"
  ELSE "except_RuntimeError"
ExceptionOf(state) ==
  IF state = "except_DownloadError" THEN "DownloadError"
  ELSE IF state = "except_TelegramBadRequest" THEN "TelegramBadRequest"
  ELSE "RuntimeError"
Ended == {"done", "crashed"}

\* The coroutine state after an exception left the try body: the except
\* clause of its class, or the end of the coroutine when no clause catches it.
AfterException(exc) == IF exc = "other" THEN "crashed" ELSE ExceptState(exc)

\* The failure an exception of a transport call stands for: a rejection by
\* the transport (TelegramBadRequest) or a failure no except clause names.
TransportFailure(outcome) ==
  IF outcome = "ok" THEN "none"
  ELSE IF outcome = "TelegramBadRequest" THEN "transport_rejection"
  ELSE "unclassified"

\* The failure download_sync ends with: the engine's extraction error, no
\* produced file, or a failure no except clause names.
EngineFailure(res, exc) ==
  IF exc = "none" THEN "none"
  ELSE IF res.kind = "DownloadError" THEN "engine_error"
  ELSE IF res.kind = "other" THEN "unclassified"
  ELSE "file_missing"

\* An entry of the edits log: what the call sets the message to ("fetching",
\* "media" or "failure") and whether the transport applied it.
Call(what, outcome) == [what |-> what, ok |-> outcome = "ok"]

\* The local variables of a pipeline coroutine that are still read; options
\* is held from build_download_options to the return of download_sync.
NoLocals ==
  [tmp_dir |-> None, options |-> None, file_path |-> None, media_kind |-> None,
   caption |-> None, media |-> None]

(***************************************************************************)
(* Init                                                                    *)
(***************************************************************************)
Init ==
  /\ per_user_settings = <<>>
  /\ task = <<>>
  /\ pc = <<>>
  /\ local = <<>>
  /\ message = <<>>
  /\ edits = <<>>
  /\ fs = <<>>
  /\ uploads = <<>>
  /\ engine_calls = <<>>
  /\ handler = <<>>
  /\ failure = <<>>
  /\ loop_owner = None
  /\ changes = 0
  /\ replies = <<>>
  /\ call = None

\* The event loop can run a step: no coroutine holds its thread.
LoopFree == loop_owner = None

\* The users an event can come from: one whose preferences are stored, or a
\* new one. User ids are only compared with each other, so the least id that
\* is not stored stands for any new user.
EventUsers ==
  {u \in Users : u \in DOMAIN per_user_settings
                  \/ \A v \in Users \ DOMAIN per_user_settings : u <= v}

(***************************************************************************)
(* Event handlers registered in main.                                      *)
(***************************************************************************)
\* The value a button payload names after its prefix: data[1:], data[4:].
Payload(data, prefix) == SubSeq(data, Len(prefix) + 1, Len(data))

\* A variant of ParseButton that takes whatever follows "q" as the quality.
ParseButtonAnyQuality(data) ==
  IF StartsWith(data, <<"q">>)
    THEN [valid |-> TRUE,
          field |-> "video_quality",
          value |-> Payload(data, <<"q">>)]
  ELSE IF StartsWith(data, <<"l", "i", "n", "k">>)
    THEN [valid |-> Payload(data, <<"l", "i", "n", "k">>) \in {<<"0">>, <<"1">>},
          field |-> "add_link",
          value |-> Payload(data, <<"l", "i", "n", "k">>) = <<"1">>]
  ELSE IF StartsWith(data, <<"f", "i", "l", "e">>)
    THEN [valid |-> Payload(data, <<"f", "i", "l", "e">>) \in {<<"0">>, <<"1">>},
          field |-> "send_as_file",
          value |-> Payload(data, <<"f", "i", "l", "e">>) = <<"1">>]
  ELSE [valid |-> FALSE, field |-> "", value |-> FALSE]

\* The if/elif chain of on_settings_button on data: the field it assigns and
\* the value, or valid = FALSE when it answers "invalid command" and returns.
ParseButton(data) ==
  IF StartsWith(data, <<"q">>)
    THEN [valid |-> Payload(data, <<"q">>) \in Qualities,
          field |-> "video_quality",
          value |-> Payload(data, <<"q">>)]
  ELSE IF StartsWith(data, <<"l", "i", "n", "k">>)
    THEN [valid |-> Payload(data, <<"l", "i", "n", "k">>) \in {<<"0">>, <<"1">>},
          field |-> "add_link",
          value |-> Payload(data, <<"l", "i", "n", "k">>) = <<"1">>]
  ELSE IF StartsWith(data, <<"f", "i", "l", "e">>)
    THEN [valid |-> Payload(data, <<"f", "i", "l", "e">>) \in {<<"0">>, <<"1">>},
          field |-> "send_as_file",
          value |-> Payload(data, <<"f", "i", "l", "e">>) = <<"1">>]
  ELSE [valid |-> FALSE, field |-> "", value |-> FALSE]

\* The filter of the callback route of on_settings_button.
SettingsRoute(data) ==
  \/ StartsWith(data, <<"q">>)
  \/ StartsWith(data, <<"l", "i", "n", "k">>)
  \/ StartsWith(data, <<"f", "i", "l", "e">>)

\* ParseButton and SettingsRoute on the button payloads, computed once.
ParsedButton == [data \in ButtonData |-> ParseButton(data)]
RoutedButton == [data \in ButtonData |-> SettingsRoute(data)]

\* The settings object after on_settings_button handled data; the same
\* object when the payload is rejected.
SettingsAfterButton(settings, data) ==
  IF ParsedButton[data].valid
    THEN [settings EXCEPT ![ParsedButton[data].field] = ParsedButton[data].value]
    ELSE settings

\* on_settings_button: the paths that change the store (a press without a
\* user, or one that finds the entry and changes nothing, answers the
\* callback and leaves the state as it is).
OnSettingsButton(u, data, has_user) ==
  /\ LoopFree
  /\ has_user
  /\ ~(changes >= MaxChanges /\ u \in DOMAIN per_user_settings)
  /\ RoutedButton[data]
  /\ LET store == StoreAfterGet(per_user_settings, u)
         settings == SettingsAfterButton(store[u], data)
         changed == settings # store[u]
     IN  /\ changed \/ u \notin DOMAIN per_user_settings
         /\ changed => changes < MaxChanges
         /\ per_user_settings' = [store EXCEPT ![u] = settings]
         /\ changes' = IF changed THEN changes + 1 ELSE changes
  /\ UNCHANGED <<task, pc, local, message, edits, fs, uploads, engine_calls,
                 handler, failure, loop_owner, replies, call>>

\* A variant of InlineAnswer that puts the button on every suggestion made
\* for a URL.
InlineAnswerButtons(query) ==
  LET url == extract_url(query)
  IN  IF Falsy(url)
        THEN [query |-> query, title |-> "link not found", reply_markup |-> FALSE]
      ELSE IF ~is_supported_source(url[1])
        THEN [query |-> query, title |-> "unsupported site", reply_markup |-> TRUE]
      ELSE [query |-> query, title |-> "download media", reply_markup |-> TRUE]

\* on_inline_query: the one suggestion it answers an inline query with.
InlineAnswer(query) ==
  LET url == extract_url(query)
  IN  IF Falsy(url)
        THEN [query |-> query, title |-> "link not found", reply_markup |-> FALSE]
      ELSE IF ~is_supported_source(url[1])
        THEN [query |-> query, title |-> "unsupported site", reply_markup |-> FALSE]
      ELSE [query |-> query, title |-> "download media", reply_markup |-> TRUE]

\* InlineAnswer on the inline queries, computed once.
InlineAnswerOf == [q \in InlineQueries |-> InlineAnswer(q)]

\* A pipeline coroutine is created with its arguments; t is the task record.
StartRequest(t, first_pc, first_message, handler_state) ==
  /\ Len(task) < MaxReq
  /\ task' = Append(task, t)
  /\ pc' = Append(pc, first_pc)
  /\ local' = Append(local, NoLocals)
  /\ message' = Append(message, first_message)
  /\ edits' = Append(edits, <<>>)
  /\ uploads' = Append(uploads, <<>>)
  /\ engine_calls' = Append(engine_calls, 0)
  /\ handler' = Append(handler, handler_state)
  /\ failure' = Append(failure, "none")

\* The message the transport sends for a chosen suggestion: the placeholder
\* text "Скачиваю..." with the no-op button.
Placeholder == [text |-> FetchingText, reply_markup |-> TRUE, media |-> None]

\* on_chosen: the transport reports that user u picked the suggestion that
\* on_inline_query answered for query; the event carries the query and, when
\* the suggestion has a button, the handle of the message it sent.
OnChosen(u, query) ==
  /\ LoopFree
  /\ Len(task) < MaxReq
  /\ LET chosen == InlineAnswerOf[query]
         url == ExtractedUrl[chosen.query]
         inline_message_id == IF chosen.reply_markup THEN Some(Len(task) + 1) ELSE None
         store == StoreAfterGet(per_user_settings, u)
     IN  /\ ~Falsy(url)
         /\ inline_message_id # None
         /\ per_user_settings' = store
         /\ StartRequest(
              [mode |-> "inline", user |-> u, text |-> chosen.query,
               url |-> url[1], user_settings |-> replace(store[u]),
               dispatched |-> store[u]],
              "edit_fetching", Some(Placeholder), "returned")
  /\ UNCHANGED <<fs, loop_owner, changes, replies, call>>

\* on_text_message, up to the first await of handle_text_link.
OnTextMessage(u, chat_type, text, has_user) ==
  /\ LoopFree
  /\ Len(task) < MaxReq
  /\ chat_type = "private"
  /\ has_user
  /\ ~CommandText[text]
  /\ ~Falsy(ExtractedUrl[text])
  /\ SupportedText[text]
  /\ LET store == StoreAfterGet(per_user_settings, u)
     IN  /\ per_user_settings' = store
         /\ StartRequest(
              [mode |-> "direct", user |-> u, text |-> text,
               url |-> ExtractedUrl[text][1], user_settings |-> replace(store[u]),
               dispatched |-> store[u]],
              "answer", None, "running")
  /\ UNCHANGED <<fs, loop_owner, changes, replies, call>>

(***************************************************************************)
(* The steps of handle_chosen and handle_text_link: one action per await,  *)
(* from the completion of the awaited call to the next await.              *)
(***************************************************************************)
\* The filesystem after the workspace d of request r is created.
CreateDir(fsys, d, r) ==
  IF d \in DOMAIN fsys THEN fsys
  ELSE [x \in DOMAIN fsys \cup {d} |->
          IF x = d THEN [owner |-> r, files |-> {}] ELSE fsys[x]]

\* "with tempfile.TemporaryDirectory(...)" up to the await of to_thread:
\* the workspace d is created, the options are built (ffmpeg_installed is
\* what shutil.which("ffmpeg") finds at this call), download_sync starts.
EnterWorkspace(r, d, ffmpeg_installed) ==
  /\ fs' = CreateDir(fs, d, r)
  /\ local' = [local EXCEPT
       ![r].tmp_dir = Some(d),
       ![r].options = Some(build_download_options(
                        d, max_size_bytes, cookies_file,
                        user_settings(r).video_quality, ffmpeg_installed))]
  /\ engine_calls' = [engine_calls EXCEPT ![r] = @ + 1]
  /\ loop_owner' = to_thread(loop_owner, r)
  /\ pc' = [pc EXCEPT ![r] = "downloading"]

\* handle_text_link: "status = await message.answer(...)" returns or raises;
\* the call is outside the try, so every exception leaves the coroutine.
SendStatus(r, outcome, d, ffmpeg_installed) ==
  /\ LoopFree
  /\ r \in Requests
  /\ pc[r] = "answer"
  /\ d \in mkdtemp(fs)
  /\ IF outcome = "ok"
       THEN /\ message' = [message EXCEPT ![r] =
                 Some([text |-> FetchingText, reply_markup |-> FALSE, media |-> None])]
            /\ EnterWorkspace(r, d, ffmpeg_installed)
            /\ UNCHANGED handler
       ELSE /\ pc' = [pc EXCEPT ![r] = "crashed"]
            /\ handler' = [handler EXCEPT ![r] = "returned"]
            /\ UNCHANGED <<message, fs, local, engine_calls, loop_owner>>
  /\ edits' = [edits EXCEPT ![r] = Append(@, Call("fetching", outcome))]
  /\ failure' = [failure EXCEPT ![r] = TransportFailure(outcome)]
  /\ UNCHANGED <<per_user_settings, task, uploads, changes, replies, call>>

\* handle_chosen: "await bot.edit_message_text(..., text="Скачиваю...")"
\* returns or raises; the call is inside the try.
EditFetching(r, outcome, d, ffmpeg_installed) ==
  /\ LoopFree
  /\ r \in Requests
  /\ pc[r] = "edit_fetching"
  /\ d \in mkdtemp(fs)
  /\ IF outcome = "ok"
       THEN /\ message' = [message EXCEPT ![r] =
                 Some([text |-> FetchingText, reply_markup |-> FALSE, media |-> None])]
            /\ EnterWorkspace(r, d, ffmpeg_installed)
       ELSE /\ pc' = [pc EXCEPT ![r] = AfterException(outcome)]
            /\ UNCHANGED <<message, fs, local, engine_calls, loop_owner>>
  /\ edits' = [edits EXCEPT ![r] = Append(@, Call("fetching", outcome))]
  /\ failure' = [failure EXCEPT ![r] = TransportFailure(outcome)]
  /\ UNCHANGED <<per_user_settings, task, uploads, handler, changes, replies, call>>

\* A variant of UploadChat that sends the file to the requesting user.
UploadChatUser(r) == task[r].user

\* The chat handle_chosen sends the downloaded file to.
UploadChat(r) == cache_chat_id

\* The payload handle_text_link builds for the media edit: the file itself.
DirectMedia(type, path, caption) ==
  [type |-> type, media |-> [kind |-> "FSInputFile", ref |-> path], caption |-> caption]

\* A variant of InlineMedia that attaches the file itself.
InlineMediaFromPath(type, file_id, path, caption) ==
  [type |-> type, media |-> [kind |-> "FSInputFile", ref |-> path], caption |-> caption]

\* The payload handle_chosen builds for the media edit: it names the file by
\* the id the transport gave the upload, never by its path.
InlineMedia(type, file_id, path, caption) ==
  [type |-> type, media |-> [kind |-> "file_id", ref |-> file_id], caption |-> caption]

\* The exception that leaves download_sync for an engine result, or "none".
DownloadException(fsys, res, path) ==
  IF res.kind = "DownloadError" THEN "DownloadError"
  ELSE IF res.kind = "other" THEN "other"
  ELSE IF res.kind = "missing" \/ ~is_file(fsys, path) THEN "RuntimeError"
  ELSE "none"

\* The handler that started the request, after the coroutine reached state p:
\* on_text_message awaits the pipeline and returns when it ends.
HandlerAfter(h, p) == IF p \in Ended THEN "returned" ELSE h

\* The local variables of the coroutine after it left the try body for
\* state p: the except clauses and the end of the coroutine use none of them.
FrameAfter(l, p) == IF p \in Ended \cup ExceptStates THEN NoLocals ELSE l

\* "file_path = await asyncio.to_thread(download_sync, url, options)" returns
\* or raises; on success the kind and the caption are computed and the next
\* transport call is issued (inline: the upload; direct: the media edit).
DownloadFinish(r, res) ==
  /\ r \in Requests
  /\ pc[r] = "downloading"
  /\ loop_owner \in {None, Some(r)}
  /\ LET d == local[r].tmp_dir[1]
         name == IF res.kind = "file" THEN res.name ELSE <<>>
         path == [dir |-> d, name |-> name]
         written == IF res.kind = "file" THEN WriteFile(fs, d, name, r) ELSE fs
         exc == DownloadException(written, res, path)
         kind == IF res.kind = "file" THEN MediaKind[name] ELSE "document"
         caption == Caption(task[r].url, user_settings(r), kind)
         type == DeliveryType(kind, user_settings(r))
     IN  /\ failure' = [failure EXCEPT ![r] = EngineFailure(res, exc)]
         /\ IF exc = "none"
           THEN /\ fs' = written
                /\ local' = [local EXCEPT
                     ![r].options = None,
                     ![r].file_path = Some(path),
                     ![r].media_kind = Some(kind),
                     ![r].caption = caption,
                     ![r].media =
                       IF task[r].mode = "direct"
                         THEN Some(DirectMedia(type, path, caption))
                         ELSE None]
                /\ pc' = [pc EXCEPT ![r] =
                     IF task[r].mode = "direct" THEN "edit_media" ELSE "uploading"]
                /\ UNCHANGED handler
           ELSE /\ fs' = WithExit(written, d, TRUE)
                /\ pc' = [pc EXCEPT ![r] = AfterException(exc)]
                /\ handler' = [handler EXCEPT ![r] = HandlerAfter(@, AfterException(exc))]
                /\ local' = [local EXCEPT ![r] = FrameAfter(@, AfterException(exc))]
  /\ loop_owner' = None
  /\ UNCHANGED <<per_user_settings, task,
                 message, edits, uploads, engine_calls, changes, replies, call>>

\* A transport call that reads FSInputFile(path) ends as the transport says
\* when the file can be read, and with FileNotFoundError when it cannot.
ReadOutcome(fsys, path, outcome) == IF is_file(fsys, path) THEN outcome ELSE "other"

\* The upload log after a call that sends the bytes of path to chat.
LogUpload(log, fsys, path, chat, outcome) ==
  IF is_file(fsys, path)
    THEN Append(log, [chat |-> chat, content |-> FileContent(fsys, path),
                      ok |-> outcome = "ok"])
    ELSE log

\* handle_chosen: "sent = await bot.send_...(cache_chat_id, FSInputFile(file_path))"
\* returns or raises; on success the media payload is built from the file id
\* of the sent message and the media edit is issued.
Upload(r, outcome) ==
  /\ LoopFree
  /\ r \in Requests
  /\ pc[r] = "uploading"
  /\ LET d == local[r].tmp_dir[1]
         path == local[r].file_path[1]
         type == DeliveryType(local[r].media_kind[1], user_settings(r))
         out == ReadOutcome(fs, path, outcome)
         log == LogUpload(uploads[r], fs, path, UploadChat(r), out)
     IN  /\ uploads' = [uploads EXCEPT ![r] = log]
         /\ failure' = [failure EXCEPT ![r] = TransportFailure(out)]
         /\ IF out = "ok"
              THEN /\ local' = [local EXCEPT ![r].media =
                        Some(InlineMedia(type, [request |-> r, upload |-> Len(log)],
                                         path, local[r].caption))]
                   /\ pc' = [pc EXCEPT ![r] = "edit_media"]
                   /\ UNCHANGED fs
              ELSE /\ fs' = WithExit(fs, d, TRUE)
                   /\ pc' = [pc EXCEPT ![r] = AfterException(out)]
                   /\ local' = [local EXCEPT ![r] = FrameAfter(@, AfterException(out))]
  /\ UNCHANGED <<per_user_settings, task,
                 message, edits, engine_calls, handler, loop_owner, changes, replies, call>>

\* The media the transport attaches to the message for a payload: the file
\* the payload refers to by id, or the bytes it read from FSInputFile(path).
StoredMedia(fsys, media) ==
  IF media.media.kind = "FSInputFile"
    THEN [media EXCEPT !.media =
            [kind |-> "uploaded", ref |-> FileContent(fsys, media.media.ref),
             filename |-> media.media.ref.name]]
    ELSE media

\* The chat the user-visible message of request r is in: the chat of the
\* requesting user.
MessageChat(r) == task[r].user

\* "await bot.edit_message_media(...)" returns or raises. A payload that holds
\* FSInputFile(file_path), as in direct mode, makes this call upload the file
\* to the chat of the message. The with block is left either way.
EditMedia(r, outcome) ==
  /\ LoopFree
  /\ r \in Requests
  /\ pc[r] = "edit_media"
  /\ LET d == local[r].tmp_dir[1]
         media == local[r].media[1]
         reads == media.media.kind = "FSInputFile"
         out == IF reads THEN ReadOutcome(fs, media.media.ref, outcome) ELSE outcome
         next == IF out = "ok" THEN "done" ELSE AfterException(out)
     IN  /\ uploads' = [uploads EXCEPT ![r] =
              IF reads
                THEN LogUpload(@, fs, media.media.ref, MessageChat(r), out)
                ELSE @]
         /\ failure' = [failure EXCEPT ![r] = TransportFailure(out)]
         /\ message' = [message EXCEPT ![r] =
              IF out = "ok"
                THEN Some([text |-> "", reply_markup |-> FALSE,
                           media |-> Some(StoredMedia(fs, media))])
                ELSE @]
         /\ edits' = [edits EXCEPT ![r] = Append(@, Call("media", out))]
         /\ fs' = WithExit(fs, d, out # "ok")
         /\ pc' = [pc EXCEPT ![r] = next]
         /\ handler' = [handler EXCEPT ![r] = HandlerAfter(@, next)]
         /\ local' = [local EXCEPT ![r] = FrameAfter(@, next)]
  /\ UNCHANGED <<per_user_settings, task, engine_calls, loop_owner, changes, replies, call>>

\* A variant of AfterReport that issues the failure edit again when the
\* transport rejects it.
AfterReportAgain(outcome) ==
  IF outcome = "ok" THEN "done"
  ELSE IF outcome = "TelegramBadRequest" THEN "except_TelegramBadRequest"
  ELSE "crashed"

\* The coroutine state after the edit of an except clause: the coroutine ends,
\* by return or by the exception of the edit.
AfterReport(outcome) == IF outcome = "ok" THEN "done" ELSE "crashed"

\* An except clause: "await ...edit_text(<failure text>)" returns or raises;
\* an exception raised here leaves the coroutine.
ReportFailure(r, outcome) ==
  /\ LoopFree
  /\ r \in Requests
  /\ pc[r] \in ExceptStates
  /\ message' = [message EXCEPT ![r] =
       IF outcome = "ok"
         THEN Some([text |-> FailureText(ExceptionOf(pc[r])),
                    reply_markup |-> FALSE, media |-> None])
         ELSE @]
  /\ edits' = [edits EXCEPT ![r] = Append(@, Call("failure", outcome))]
  /\ pc' = [pc EXCEPT ![r] = AfterReport(outcome)]
  /\ handler' = [handler EXCEPT ![r] = HandlerAfter(@, AfterReport(outcome))]
  /\ local' = [local EXCEPT ![r] = NoLocals]
  /\ UNCHANGED <<per_user_settings, task,
                 fs, uploads, engine_calls, failure, loop_owner, changes, replies, call>>

(***************************************************************************)
(* The handlers and paths that start no pipeline.                          *)
(***************************************************************************)
\* "Отправьте ссылку из Instagram, TikTok или YouTube."
SendLinkText == "send a link"
\* "Поддерживаются только Instagram, TikTok и YouTube."
OnlySupportedText == "only supported sites"

\* on_settings: the /settings command creates the entry of a new user; the
\* settings text and keyboard it answers with are built from the entry.
OnSettings(u, chat_type, has_user) ==
  /\ LoopFree
  /\ chat_type = "private"
  /\ has_user
  /\ per_user_settings' = StoreAfterGet(per_user_settings, u)
  /\ UNCHANGED <<task, pc, local, message, edits, fs, uploads, engine_calls,
                 handler, failure, loop_owner, changes, replies, call>>

\* The text on_text_message answers a text without a supported URL with.
CorrectiveText(text) ==
  IF Falsy(ExtractedUrl[text]) THEN SendLinkText ELSE OnlySupportedText

\* on_text_message, the validation-only paths: a private text that is no
\* command and has no URL, or a URL of an unsupported host, is answered and
\* the handler returns.
OnTextRejected(chat_type, text) ==
  /\ LoopFree
  /\ Len(replies) < MaxReplies
  /\ chat_type = "private"
  /\ ~CommandText[text]
  /\ ~SupportedText[text]
  /\ replies' = Append(replies, [event |-> "text", text |-> text,
                                  answer |-> CorrectiveText(text),
                                  results |-> <<>>])
  /\ UNCHANGED <<per_user_settings, task, pc, local, message, edits, fs, uploads,
                 engine_calls, handler, failure, loop_owner, changes, call>>

\* on_inline_query: inline_query.answer(results=[...]) with one suggestion.
OnInlineQuery(query) ==
  /\ LoopFree
  /\ Len(replies) < MaxReplies
  /\ replies' = Append(replies, [event |-> "inline", text |-> query,
                                  answer |-> "",
                                  results |-> <<InlineAnswerOf[query]>>])
  /\ UNCHANGED <<per_user_settings, task, pc, local, message, edits, fs, uploads,
                 engine_calls, handler, failure, loop_owner, changes, call>>

(***************************************************************************)
(* Specification.                                                          *)
(***************************************************************************)
Next ==
  \/ \E u \in EventUsers, c \in ChatTypes, h \in BOOLEAN : OnSettings(u, c, h)
  \/ \E u \in EventUsers, data \in ButtonData, h \in BOOLEAN :
       OnSettingsButton(u, data, h)
  \/ \E u \in EventUsers, q \in InlineQueries : OnChosen(u, q)
  \/ \E u \in EventUsers, c \in ChatTypes, t \in Texts, h \in BOOLEAN :
       OnTextMessage(u, c, t, h)
  \/ \E r \in 1..MaxReq, o \in Outcomes, d \in DirNames, f \in BOOLEAN :
       SendStatus(r, o, d, f)
  \/ \E r \in 1..MaxReq, o \in Outcomes, d \in DirNames, f \in BOOLEAN :
       EditFetching(r, o, d, f)
  \/ \E r \in 1..MaxReq, res \in EngineOutcomes : DownloadFinish(r, res)
  \/ \E r \in 1..MaxReq, o \in Outcomes : Upload(r, o)
  \/ \E r \in 1..MaxReq, o \in Outcomes : EditMedia(r, o)
  \/ \E r \in 1..MaxReq, o \in Outcomes : ReportFailure(r, o)

Spec == Init /\ [][Next]_vars

\* The event handlers alone, each up to the point where it returns or
\* awaits the first transport call of the pipeline.
NextFront ==
  \/ \E u \in EventUsers, c \in ChatTypes, h \in BOOLEAN : OnSettings(u, c, h)
  \/ \E u \in EventUsers, data \in ButtonData, h \in BOOLEAN :
       OnSettingsButton(u, data, h)
  \/ \E q \in InlineQueries : OnInlineQuery(q)
  \/ \E u \in EventUsers, q \in InlineQueries : OnChosen(u, q)
  \/ \E u \in EventUsers, c \in ChatTypes, t \in Texts, h \in BOOLEAN :
       OnTextMessage(u, c, t, h)
  \/ \E c \in ChatTypes, t \in Texts : OnTextRejected(c, t)

SpecFront == Init /\ [][NextFront]_vars

(***************************************************************************)
(* The functions of the pipeline, applied to inputs of their own.          *)
(***************************************************************************)
\* A function application that waits for its evaluation.
Pending(fn, arg) == Some([fn |-> fn, arg |-> arg, done |-> FALSE, out |-> None])

\* The application in call is evaluated to out.
Return(fn, out) ==
  /\ call # None
  /\ call[1].fn = fn
  /\ ~call[1].done
  /\ call' = Some([call[1] EXCEPT !.done = TRUE, !.out = out])
  /\ UNCHANGED <<per_user_settings, task, pc, local, message, edits, fs, uploads,
                 engine_calls, handler, failure, loop_owner, changes, replies>>

\* The argument of the application in call.
Arg == call[1].arg

(***************************************************************************)
(* download_sync                                                           *)
(***************************************************************************)
\* "media.mp4" and "media.NA", the paths the engine reports or predicts.
PathReported == "media.mp4"
PathPredicted == "media.NA"
Paths == {PathReported, PathPredicted}

\* What a path names on the filesystem when the engine has returned.
FileStates == {"absent", "directory", "empty", "nonempty"}

\* An info dict, as far as download_sync reads it: its "entries", the
\* "filepath" of requested_downloads[0] (None: no such list, an empty list,
\* a first element that is no dict, or no truthy filepath), and the name
\* ydl.prepare_filename(info) gives it.
InfoDict(entries, filepath) ==
  [is_dict |-> TRUE, entries |-> entries, filepath |-> filepath,
   predicted |-> PathPredicted]

\* A value that is no dict (None, a string).
NotADict ==
  [is_dict |-> FALSE, entries |-> <<>>, filepath |-> None,
   predicted |-> PathPredicted]

\* info = {}
EmptyInfo == InfoDict(<<>>, None)

\* The values ydl.extract_info returns.
Infos ==
  {NotADict,
   InfoDict(<<>>, None),
   InfoDict(<<>>, Some(PathReported)),
   InfoDict(<<NotADict, InfoDict(<<>>, Some(PathReported))>>, None),
   InfoDict(<<InfoDict(<<>>, None)>>, Some(PathReported)),
   InfoDict(<<NotADict>>, Some(PathReported))}

\* The runs of the engine: it raises, or returns info with the files it left.
EngineRuns ==
  [raises : {"DownloadError", "other"}, info : {NotADict},
   files : {[p \in Paths |-> "absent"]}]
  \cup [raises : {"none"}, info : Infos, files : [Paths -> FileStates]]

\* next((x for x in info["entries"] if isinstance(x, dict)), {})
RECURSIVE FirstDict(_)
FirstDict(entries) ==
  IF entries = <<>> THEN EmptyInfo
  ELSE IF Head(entries).is_dict THEN Head(entries)
  ELSE FirstDict(Tail(entries))

\* Path.is_file() on what the path names.
IsRegularFile(state) == state \in {"empty", "nonempty"}

\* download_sync on a run of the engine: the exception it ends with, or the
\* path it returns.
download_sync(run) ==
  IF run.raises # "none" THEN [raised |-> run.raises, path |-> ""]
  ELSE
    LET chosen == IF run.info.is_dict /\ run.info.entries # <<>>
                    THEN FirstDict(run.info.entries)
                    ELSE run.info
        info == IF chosen.is_dict THEN chosen ELSE EmptyInfo
        path == IF info.filepath # None THEN info.filepath[1] ELSE info.predicted
    IN  IF IsRegularFile(run.files[path])
          THEN [raised |-> "none", path |-> path]
          ELSE [raised |-> "RuntimeError", path |-> ""]

ApplyDownloadSync == Return("download_sync", download_sync(Arg))

(***************************************************************************)
(* build_download_options on arguments of its own.                         *)
(***************************************************************************)
\* The arguments of build_download_options, with what shutil.which finds.
OptionArguments ==
  [tmp_path : DirNames,
   max_size : {max_size_bytes, 1024 * 1024},
   cookies : {None, Some("cookies.txt")},
   video_quality : Qualities,
   ffmpeg : BOOLEAN]

ApplyBuildDownloadOptions ==
  Return("build_download_options",
         build_download_options(Arg.tmp_path, Arg.max_size, Arg.cookies,
                                Arg.video_quality, Arg.ffmpeg))

(***************************************************************************)
(* extract_url on texts of its own.                                        *)
(***************************************************************************)
\* The pieces the texts are put together from: schemes in two letter cases,
\* a letter, a blank, and the three characters extract_url strips.
Pieces ==
  {<<"h", "t", "t", "p", ":", "/", "/">>,
   <<"H", "T", "T", "P", "S", ":", "/", "/">>,
   <<"a">>, <<" ">>, <<")">>, <<".">>, <<",">>}

\* The texts of at most n pieces; the empty text is what "text or ''" makes
\* of a missing text.
RECURSIVE PieceTexts(_)
PieceTexts(n) ==
  IF n = 0 THEN {<<>>}
  ELSE LET shorter == PieceTexts(n - 1)
       IN  shorter \cup {t \o p : t \in shorter, p \in Pieces}

ApplyExtractUrl == Return("extract_url", extract_url(Arg))

(***************************************************************************)
(* is_supported_source on URLs of its own.                                 *)
(***************************************************************************)
\* The hosts of the URLs: allow-listed domains and subdomains in several
\* letter cases, hosts that only contain a domain, and no host.
UrlHosts ==
  {<<"i", "n", "s", "t", "a", "g", "r", "a", "m", ".", "c", "o", "m">>,
   <<"I", "N", "S", "T", "A", "G", "R", "A", "M", ".", "C", "O", "M">>,
   <<"I", "n", "s", "t", "a", "g", "r", "a", "m", ".", "C", "o", "m">>,
   <<"x", ".", "i", "n", "s", "t", "a", "g", "r", "a", "m", ".", "c", "o",
     "m">>,
   <<"X", ".", "I", "N", "S", "T", "A", "G", "R", "A", "M", ".", "C", "O",
     "M">>,
   <<"n", "o", "t", "i", "n", "s", "t", "a", "g", "r", "a", "m", ".", "c",
     "o", "m">>,
   <<"e", "v", "i", "l", "i", "n", "s", "t", "a", "g", "r", "a", "m", ".",
     "c", "o", "m">>,
   <<"i", "n", "s", "t", "a", "g", "r", "a", "m", ".", "c", "o", "m", ".",
     "e", "v", "i", "l", ".", "c", "o", "m">>,
   <<"y", "o", "u", "t", "u", ".", "b", "e">>,
   <<"m", ".", "y", "o", "u", "t", "u", "b", "e", ".", "c", "o", "m">>,
   <<"v", "i", "m", "e", "o", ".", "c", "o", "m">>,
   <<>>}

\* "https://", "HTTP://"
UrlSchemes ==
  {<<"h", "t", "t", "p", "s", ":", "/", "/">>,
   <<"H", "T", "T", "P", ":", "/", "/">>}

\* No userinfo, and the userinfo "instagram.com@".
UrlUsers ==
  {<<>>,
   <<"i", "n", "s", "t", "a", "g", "r", "a", "m", ".", "c", "o", "m", "@">>}

\* No port, and ":443".
UrlPorts ==
  {<<>>,
   <<":", "4", "4", "3">>}

\* What follows the network location: nothing, a path, a query.
UrlTails ==
  {<<>>,
   <<"/", "i", "n", "s", "t", "a", "g", "r", "a", "m", ".", "c", "o", "m">>,
   <<"?", "u", "=", "y", "o", "u", "t", "u", ".", "b", "e">>}

\* The URLs, each with the host it was put together from.
UrlArguments ==
  [scheme : UrlSchemes, user : UrlUsers, host : UrlHosts, port : UrlPorts,
   tail : UrlTails]

\* The URL of its parts.
UrlOf(parts) ==
  parts.scheme \o parts.user \o parts.host \o parts.port \o parts.tail

ApplyIsSupportedSource ==
  Return("is_supported_source", is_supported_source(UrlOf(Arg)))

(***************************************************************************)
(* The media payload of a downloaded file: the statements between the      *)
(* download and the upload, on URLs of every length.                       *)
(***************************************************************************)
MediaArguments ==
  [mode : {"inline", "direct"}, url : Urls \cup LongUrls,
   user_settings : [video_quality : Qualities, add_link : BOOLEAN,
                    send_as_file : BOOLEAN],
   name : FileNames]

\* media_kind, caption and the InputMedia* object the if/elif/else builds; in
\* inline mode the file went to the cache chat first and its file_id is used.
delivered_media(mode, url, settings, name) ==
  LET file_path == [dir |-> 1, name |-> name]
      media_kind == MediaKind[name]
      caption == Caption(url, settings, media_kind)
      type == DeliveryType(media_kind, settings)
  IN  IF mode = "direct"
        THEN DirectMedia(type, file_path, caption)
        ELSE InlineMedia(type, [request |-> 1, upload |-> 1], file_path, caption)

ApplyDeliveredMedia ==
  Return("media", delivered_media(Arg.mode, Arg.url, Arg.user_settings, Arg.name))

(***************************************************************************)
(* Specification of the function applications.                             *)
(***************************************************************************)
\* The applications the specification starts from.
Applications ==
  {Pending("download_sync", run) : run \in EngineRuns}
  \cup {Pending("build_download_options", a) : a \in OptionArguments}
  \cup {Pending("extract_url", t) : t \in PieceTexts(MaxPieces)}
  \cup {Pending("is_supported_source", parts) : parts \in UrlArguments}
  \cup {Pending("media", a) : a \in MediaArguments}

InitFn ==
  /\ per_user_settings = <<>>
  /\ task = <<>>
  /\ pc = <<>>
  /\ local = <<>>
  /\ message = <<>>
  /\ edits = <<>>
  /\ fs = <<>>
  /\ uploads = <<>>
  /\ engine_calls = <<>>
  /\ handler = <<>>
  /\ failure = <<>>
  /\ loop_owner = None
  /\ changes = 0
  /\ replies = <<>>
  /\ call \in Applications

NextFn ==
  \/ ApplyDownloadSync
  \/ ApplyBuildDownloadOptions
  \/ ApplyExtractUrl
  \/ ApplyIsSupportedSource
  \/ ApplyDeliveredMedia

SpecFn == InitFn /\ [][NextFn]_vars

(***************************************************************************)
(* Observations the properties are stated with.                            *)
(***************************************************************************)
\* The message of request r shows the final media.
HasMedia(r) == message[r] # None /\ message[r][1].media # None

\* The message of request r shows one of the failure texts.
FailureShown(r) ==
  /\ message[r] # None
  /\ message[r][1].media = None
  /\ message[r][1].text \in FailureTexts

\* The message of request r is in a terminal state.
Terminal(r) == HasMedia(r) \/ FailureShown(r)

\* The pipeline of request r called download_sync: its workspace was created.
WorkspaceCreated(r) == engine_calls[r] > 0

\* The call e of the edits log sets a terminal state.
TerminalCall(e) == e.what \in {"media", "failure"}

(***************************************************************************)
(* C1                                                                      *)
(***************************************************************************)
\* C1: once the pipeline run of a request has ended, however the download,
\* the upload or a message edit ended, the user-visible message shows the
\* final media or a failure text; it is not left at the "fetching" text.
C1_TerminalOnceEnded ==
  \A r \in Requests :
    (pc[r] \in Ended /\ message[r] # None) => Terminal(r)

(***************************************************************************)
(* C2                                                                      *)
(***************************************************************************)
\* C2: in every state where the pipeline run of a request has ended (media
\* delivered, classified failure handled, or unclassified exception
\* propagated), no temporary workspace created for that request exists.
C2_WorkspaceRemoved ==
  \A r \in Requests :
    pc[r] \in Ended => \A d \in DOMAIN fs : fs[d].owner # r

\* A direct request delivered its media and an inline request ended with an
\* exception that no except clause names, after its workspace was created.
C2_Witness ==
  \E r, q \in Requests :
    /\ task[r].mode = "direct" /\ pc[r] = "done" /\ HasMedia(r)
    /\ task[q].mode = "inline" /\ pc[q] = "crashed" /\ WorkspaceCreated(q)
    /\ failure[q] = "unclassified"

(***************************************************************************)
(* C3                                                                      *)
(***************************************************************************)
\* The options of request r hold the format expression of preferences prefs.
FormatFrom(r, prefs) ==
  local[r].options # None =>
    local[r].options[1].format =
      FormatExpression(local[r].options[1].merge_output_format # None,
                       prefs.video_quality)

\* The caption and the payload of request r are those of preferences prefs.
DeliveryFrom(r, prefs) ==
  /\ local[r].media_kind # None =>
       local[r].caption = Caption(task[r].url, prefs, local[r].media_kind[1])
  /\ local[r].media # None =>
       /\ local[r].media[1].type = DeliveryType(local[r].media_kind[1], prefs)
       /\ local[r].media[1].caption =
            Caption(task[r].url, prefs, local[r].media_kind[1])

\* C3: the format expression, the caption and the delivery kind of an
\* in-flight request are determined by the preferences its user had when the
\* request was dispatched, whatever the settings buttons changed afterwards.
C3_FrozenSnapshot ==
  \A r \in Requests :
    /\ FormatFrom(r, task[r].dispatched)
    /\ DeliveryFrom(r, task[r].dispatched)

\* A request is about to deliver while the stored preferences of its user
\* differ from the ones at dispatch: a button changed them in between.
C3_Witness ==
  \E r \in Requests :
    /\ pc[r] = "edit_media"
    /\ per_user_settings[task[r].user] # task[r].dispatched

(***************************************************************************)
(* C4                                                                      *)
(***************************************************************************)
\* The next step of the pipeline of request q, with any result of its call.
PipelineStep(q) ==
  \E o \in Outcomes :
    \/ \E d \in DirNames, f \in BOOLEAN : SendStatus(q, o, d, f)
    \/ \E d \in DirNames, f \in BOOLEAN : EditFetching(q, o, d, f)
    \/ Upload(q, o)
    \/ EditMedia(q, o)
    \/ ReportFailure(q, o)

\* The event loop can handle every other event: a new direct or inline
\* request of any user while there is room for one, and the next step of
\* every other pipeline that waits for the transport.
LoopHandlesOtherEvents ==
  /\ Len(task) < MaxReq =>
       \A u \in EventUsers :
         /\ ENABLED OnTextMessage(u, "private", TextScenario1, TRUE)
         /\ ENABLED OnChosen(u, TextScenario1)
  /\ \A q \in Requests :
       pc[q] \notin Ended \cup {"downloading"} => ENABLED PipelineStep(q)

\* C4 as stated: every handler that starts a pipeline has returned while the
\* pipeline is still running.
C4_HandlersReturnImmediately ==
  \A r \in Requests : pc[r] \notin Ended => handler[r] = "returned"

\* C4, corrected: the inline handler has returned while its pipeline runs;
\* the direct handler returns exactly when its pipeline run ends; and while
\* a download is in progress the loop can handle every other event.
C4_LoopStaysFree ==
  /\ \A r \in Requests :
       /\ task[r].mode = "inline" => handler[r] = "returned"
       /\ task[r].mode = "direct" => (handler[r] = "returned" <=> pc[r] \in Ended)
  /\ (\E r \in Requests : pc[r] = "downloading") => LoopHandlesOtherEvents

\* The download of the first request is still in progress and a request
\* dispatched after it has run to its end with its media delivered.
C4_Witness ==
  /\ Len(task) = 2
  /\ pc[1] = "downloading"
  /\ pc[2] = "done" /\ HasMedia(2)
  /\ task[1].mode = "direct" /\ handler[1] = "running"

(***************************************************************************)
(* C5                                                                      *)
(***************************************************************************)
\* The payload m of request r names the file by the reference of a
\* successful upload of that request to the cache chat.
MediaFromCache(r, m) ==
  /\ m.media.kind = "file_id"
  /\ m.media.ref.request = r
  /\ m.media.ref.upload \in DOMAIN uploads[r]
  /\ uploads[r][m.media.ref.upload].ok
  /\ uploads[r][m.media.ref.upload].chat = cache_chat_id

\* C5: in inline mode a media edit, issued or applied, carries the file
\* reference of a successful upload of the same request to the cache chat;
\* the file is uploaded to no other chat and not more than once.
C5_InlineMediaFromCache ==
  \A r \in Requests :
    task[r].mode = "inline" =>
      /\ Len(uploads[r]) <= 1
      /\ \A i \in DOMAIN uploads[r] :
           uploads[r][i].chat = cache_chat_id /\ uploads[r][i].chat # task[r].user
      /\ pc[r] = "edit_media" => MediaFromCache(r, local[r].media[1])
      /\ HasMedia(r) => MediaFromCache(r, message[r][1].media[1])

\* An inline request delivered its media.
C5_Witness ==
  \E r \in Requests :
    task[r].mode = "inline" /\ pc[r] = "done" /\ HasMedia(r)

(***************************************************************************)
(* C6                                                                      *)
(***************************************************************************)
\* C6 as stated: a terminal edit is issued only after the "fetching" state
\* was set, it is the only terminal edit of the request, and no call follows.
C6_StrictOrder ==
  \A r \in Requests :
    \A i \in DOMAIN edits[r] :
      TerminalCall(edits[r][i]) =>
        /\ \E j \in 1..(i - 1) : edits[r][j].what = "fetching" /\ edits[r][j].ok
        /\ i = Len(edits[r])
        /\ \A j \in DOMAIN edits[r] : TerminalCall(edits[r][j]) => j = i

\* C6, corrected: a terminal edit is issued only after the "fetching" call
\* was issued, and in direct mode only after it took effect; in inline mode a
\* rejected "fetching" edit is followed by the failure edit alone. At most
\* one terminal edit takes effect, nothing follows it, and the only call
\* that follows a terminal edit without effect is the failure edit after a
\* media edit.
C6_OrderOfEffects ==
  \A r \in Requests :
    \A i \in DOMAIN edits[r] :
      TerminalCall(edits[r][i]) =>
        /\ i > 1 /\ edits[r][1].what = "fetching"
        /\ task[r].mode = "direct" => edits[r][1].ok
        /\ ~edits[r][1].ok => edits[r][i].what = "failure"
        /\ edits[r][i].ok => i = Len(edits[r])
        /\ i < Len(edits[r]) =>
             /\ edits[r][i].what = "media"
             /\ edits[r][i + 1].what = "failure"
             /\ i + 1 = Len(edits[r])

\* An inline request whose "fetching" edit was rejected shows the failure
\* text, and another request issued the failure edit after a rejected media
\* edit.
C6_Witness ==
  \E r, q \in Requests :
    /\ task[r].mode = "inline"
    /\ edits[r] = <<Call("fetching", "TelegramBadRequest"), Call("failure", "ok")>>
    /\ FailureShown(r)
    /\ Len(edits[q]) = 3
    /\ edits[q][2] = Call("media", "TelegramBadRequest")
    /\ edits[q][3] = Call("failure", "ok")

(***************************************************************************)
(* C7                                                                      *)
(***************************************************************************)
\* The text the message of a finished request shows for a failure class.
TextOfClass(class) ==
  IF class = "engine_error" THEN DownloadFailedText
  ELSE IF class = "transport_rejection" THEN TelegramErrorText
  ELSE IF class = "file_missing" THEN FileNotFoundText
  ELSE ""

\* C7: the three failure classes have three different texts, and in both
\* modes a request that handled a failure shows the text of the class of
\* that failure: engine error, transport rejection, or missing file.
C7_FailureTexts ==
  /\ Cardinality(FailureTexts) = 3
  /\ \A r \in Requests :
       /\ FailureShown(r) =>
            /\ failure[r] \in {"engine_error", "transport_rejection", "file_missing"}
            /\ message[r][1].text = TextOfClass(failure[r])
       /\ (pc[r] = "done" /\ failure[r] # "none") => FailureShown(r)

\* A direct request shows the text of an engine error and an inline request
\* the text of a transport rejection.
C7_Witness ==
  \E r, q \in Requests :
    /\ task[r].mode = "direct" /\ failure[r] = "engine_error" /\ FailureShown(r)
    /\ task[q].mode = "inline" /\ failure[q] = "transport_rejection"
    /\ FailureShown(q)

(***************************************************************************)
(* C8                                                                      *)
(***************************************************************************)
\* C8: over the life of a request download_sync is called at most once and
\* at most one file upload is issued, whatever failed.
C8_NoRetry ==
  \A r \in Requests :
    /\ engine_calls[r] <= 1
    /\ Len(uploads[r]) <= 1

\* A request shows a failure text after its one upload was rejected.
C8_Witness ==
  \E r \in Requests :
    /\ pc[r] = "done" /\ FailureShown(r)
    /\ engine_calls[r] = 1
    /\ Len(uploads[r]) = 1 /\ ~uploads[r][1].ok

(***************************************************************************)
(* C9                                                                      *)
(***************************************************************************)
\* C9: two requests never hold the same temporary workspace, every file in a
\* workspace was produced by the request that owns it, and the file a
\* request uploads or delivers was produced by that request.
C9_Isolation ==
  /\ \A r, q \in Requests :
       (r # q /\ local[r].tmp_dir # None /\ local[q].tmp_dir # None)
         => local[r].tmp_dir # local[q].tmp_dir
  /\ \A d \in DOMAIN fs : \A f \in fs[d].files : f.content.by = fs[d].owner
  /\ \A r \in Requests :
       /\ \A i \in DOMAIN uploads[r] : uploads[r][i].content.by = r
       /\ (HasMedia(r) /\ task[r].mode = "direct") =>
            message[r][1].media[1].media.ref.by = r

\* Two requests of different users for the same URL hold their downloaded
\* files at the same time.
C9_Witness ==
  \E r, q \in Requests :
    /\ r # q
    /\ task[r].url = task[q].url
    /\ task[r].user # task[q].user
    /\ local[r].file_path # None
    /\ local[q].file_path # None

(***************************************************************************)
(* C10                                                                     *)
(***************************************************************************)
\* "https://youtu.be/abc123"
UrlScenario1 ==
  <<"h", "t", "t", "p", "s", ":", "/", "/", "y", "o", "u", "t", "u", ".",
    "b", "e", "/", "a", "b", "c", "1", "2", "3">>

\* C10: for the direct text "check this https://youtu.be/abc123!" of a user
\* with the default preferences, an engine output media.mp4 is delivered as
\* a video with the caption "Source: https://youtu.be/abc123".
C10_Scenario1 ==
  \A r \in Requests :
    ( /\ task[r].mode = "direct"
      /\ task[r].text = TextScenario1
      /\ task[r].dispatched.add_link
      /\ HasMedia(r)
      /\ ~task[r].dispatched.send_as_file
      /\ message[r][1].media[1].media.filename =
           <<"m", "e", "d", "i", "a", ".", "m", "p", "4">> )
    => /\ message[r][1].media[1].type = "video"
       /\ message[r][1].media[1].caption = Some(SourcePrefix \o UrlScenario1)

(***************************************************************************)
(* C11                                                                     *)
(***************************************************************************)
\* C11: a private text with no URL ("hello") or with a URL of a host that is
\* not on the list ("https://vimeo.com/123") is answered with a corrective
\* text and starts no request; an inline query with the unsupported URL is
\* answered with exactly one suggestion, titled as unsupported site, without
\* a button.
C11_ValidationFailure ==
  /\ \A r \in Requests :
       task[r].mode = "direct" => task[r].text \notin {TextNoUrl, TextVimeo}
  /\ \A i \in DOMAIN replies :
       /\ replies[i].event = "text" =>
            /\ replies[i].text \in {TextNoUrl, TextVimeo}
            /\ replies[i].text = TextNoUrl => replies[i].answer = SendLinkText
            /\ replies[i].text = TextVimeo => replies[i].answer = OnlySupportedText
       /\ (replies[i].event = "inline" /\ replies[i].text = TextVimeo) =>
            /\ Len(replies[i].results) = 1
            /\ replies[i].results[1].title = "unsupported site"
            /\ ~replies[i].results[1].reply_markup

\* The text with the unsupported URL and the inline query with it were both
\* answered, and a request for a supported text was started besides.
C11_Witness ==
  /\ \E i \in DOMAIN replies :
       replies[i].event = "text" /\ replies[i].text = TextVimeo
  /\ \E i \in DOMAIN replies :
       replies[i].event = "inline" /\ replies[i].text = TextVimeo
  /\ \E r \in Requests : task[r].mode = "direct"

(***************************************************************************)
(* C12                                                                     *)
(***************************************************************************)
\* C12: when the send-as-file preference of the request is on, the media
\* payload is a document, in both modes and for every classified kind.
C12_ForcedDocument ==
  \A r \in Requests :
    (task[r].dispatched.send_as_file /\ local[r].media # None)
      => local[r].media[1].type = "document"

(***************************************************************************)
(* C13                                                                     *)
(***************************************************************************)
\* The application of fn in call has been evaluated.
Evaluated(fn) == call # None /\ call[1].fn = fn /\ call[1].done

\* C13: a path download_sync returns names a file that exists and is not
\* empty; when the reported or predicted output is missing or empty,
\* download_sync ends with the "file not produced" failure.
C13_ReturnedFileNonEmpty ==
  (Evaluated("download_sync") /\ Arg.raises = "none") =>
    /\ call[1].out.raised = "none" => Arg.files[call[1].out.path] = "nonempty"
    /\ call[1].out.raised \in {"none", "RuntimeError"}

(***************************************************************************)
(* C14                                                                     *)
(***************************************************************************)
\* The decision table: the expression for (muxing available, tier).
FormatTable(muxing, tier) ==
  CASE muxing /\ tier = QBest -> "bv*+ba/best"
    [] muxing /\ tier = Q720 -> "bv*[height<=720]+ba/b[height<=720]/best[height<=720]"
    [] muxing /\ tier = Q480 -> "bv*[height<=480]+ba/b[height<=480]/best[height<=480]"
    [] ~muxing /\ tier = QBest -> "best"
    [] ~muxing /\ tier = Q720 -> "best[height<=720]/best"
    [] ~muxing /\ tier = Q480 -> "best[height<=480]/best"

\* C14: for every pair (muxing available, tier) the options hold the
\* expression of the decision table and, with muxing only, the mp4
\* container, whatever the other arguments are; the size ceiling passed in
\* is in the options in every case.
C14_FormatPolicy ==
  Evaluated("build_download_options") =>
    /\ call[1].out.format = FormatTable(Arg.ffmpeg, Arg.video_quality)
    /\ call[1].out.merge_output_format = (IF Arg.ffmpeg THEN Some("mp4") ELSE None)
    /\ call[1].out.max_filesize = Arg.max_size

\* The options were built for tier 480 without muxing, with a credential
\* file and the smaller ceiling.
C14_Witness ==
  /\ Evaluated("build_download_options")
  /\ ~Arg.ffmpeg
  /\ Arg.video_quality = Q480
  /\ Arg.cookies # None
  /\ Arg.max_size # max_size_bytes

(***************************************************************************)
(* C15                                                                     *)
(***************************************************************************)
\* The offsets of text where "http://" or "https://", in any letter case,
\* is followed by a character that is no whitespace.
MatchStarts(text) ==
  {i \in 1..Len(text) :
     \E scheme \in {SchemeHttp, SchemeHttps} :
       /\ HasPrefixAt(Lower(text), scheme, i)
       /\ i + Len(scheme) <= Len(text)
       /\ text[i + Len(scheme)] \notin Whitespace}

\* url is the run without whitespace that starts at offset i of text, less
\* all the characters ")", "." and "," at its end.
StrippedRunAt(text, i, url) ==
  /\ url # <<>>
  /\ HasPrefixAt(text, url, i)
  /\ \A k \in 1..Len(url) : url[k] \notin Whitespace
  /\ url[Len(url)] \notin TrailingPunctuation
  /\ \A k \in (i + Len(url))..Len(text) :
       (\A j \in (i + Len(url))..k : text[j] \notin Whitespace)
         => text[k] \in TrailingPunctuation

\* C15: for every text extract_url returns; it returns a URL exactly when
\* the text has a match of the URL pattern, and then the first match with
\* every trailing ")", "." and "," removed, which ends in none of them.
C15_ExtractUrl ==
  Evaluated("extract_url") =>
    LET starts == MatchStarts(Arg)
        out == call[1].out
    IN  /\ out = None <=> starts = {}
        /\ out # None =>
             StrippedRunAt(Arg, CHOOSE i \in starts : \A j \in starts : i <= j,
                           out[1])

\* extract_url returned a URL from a text with two matches after it removed
\* two characters from the end of the first.
C15_Witness ==
  /\ Evaluated("extract_url")
  /\ Cardinality(MatchStarts(Arg)) = 2
  /\ call[1].out # None
  /\ \E i \in MatchStarts(Arg) :
       /\ HasPrefixAt(Arg, call[1].out[1], i)
       /\ i + Len(call[1].out[1]) + 1 <= Len(Arg)
       /\ Arg[i + Len(call[1].out[1])] \in TrailingPunctuation
       /\ Arg[i + Len(call[1].out[1]) + 1] \in TrailingPunctuation

(***************************************************************************)
(* C16                                                                     *)
(***************************************************************************)
\* "instagram.com"
HostInstagram ==
  {<<"i", "n", "s", "t", "a", "g", "r", "a", "m", ".", "c", "o", "m">>}
\* "x.instagram.com"
HostSubInstagram ==
  {<<"x", ".", "i", "n", "s", "t", "a", "g", "r", "a", "m", ".", "c", "o",
     "m">>}
\* "notinstagram.com", "evilinstagram.com"
HostsContaining ==
  {<<"n", "o", "t", "i", "n", "s", "t", "a", "g", "r", "a", "m", ".", "c",
     "o", "m">>,
   <<"e", "v", "i", "l", "i", "n", "s", "t", "a", "g", "r", "a", "m", ".",
     "c", "o", "m">>}

\* The case-folded host is an allow-listed domain or ends with "." and one.
OnAllowList(host) ==
  \E domain \in SUPPORTED_DOMAINS :
    \/ Lower(host) = domain
    \/ /\ Len(host) > Len(domain)
       /\ SubSeq(Lower(host), Len(host) - Len(domain), Len(host)) = <<".">> \o domain

\* C16: is_supported_source is true exactly for the URLs whose case-folded
\* host is an allow-listed domain or a subdomain of one; notinstagram.com
\* and evilinstagram.com are rejected, instagram.com and x.instagram.com are
\* accepted in every letter case.
C16_SourceValidator ==
  Evaluated("is_supported_source") =>
    /\ call[1].out <=> OnAllowList(Arg.host)
    /\ Arg.host \in HostsContaining => ~call[1].out
    /\ Lower(Arg.host) \in HostInstagram \cup HostSubInstagram => call[1].out

\* An upper-case subdomain of an allow-listed domain was accepted behind a
\* userinfo and before a port.
C16_Witness ==
  /\ Evaluated("is_supported_source")
  /\ call[1].out
  /\ Lower(Arg.host) \in HostSubInstagram
  /\ Arg.host \notin HostSubInstagram
  /\ Arg.user # <<>>
  /\ Arg.port # <<>>

(***************************************************************************)
(* C17                                                                     *)
(***************************************************************************)
\* The name of a video file.
VideoName == <<"m", "e", "d", "i", "a", ".", "m", "p", "4">>

\* C17: the media payload carries a caption exactly when the file is a video
\* and add_link of the request's preferences is on, whatever the delivery
\* type; the caption is the beginning of "Source: " and the URL and is at
\* most 1024 characters long.
C17_CaptionRule ==
  Evaluated("media") =>
    LET caption == call[1].out.caption
        whole == SourcePrefix \o Arg.url
    IN  /\ caption # None <=> (Arg.name = VideoName /\ Arg.user_settings.add_link)
        /\ caption # None =>
             /\ Len(caption[1]) <= CaptionLimit
             /\ Len(caption[1]) <= Len(whole)
             /\ caption[1] = SubSeq(whole, 1, Len(caption[1]))
             /\ Len(whole) <= CaptionLimit => caption[1] = whole

\* A video of a URL longer than the limit was built as a document for the
\* media edit, with a caption of exactly 1024 characters.
C17_Witness ==
  /\ Evaluated("media")
  /\ Arg.name = VideoName
  /\ Arg.user_settings.send_as_file
  /\ call[1].out.type = "document"
  /\ Len(SourcePrefix \o Arg.url) > CaptionLimit
  /\ call[1].out.caption # None
  /\ Len(call[1].out.caption[1]) = CaptionLimit

(***************************************************************************)
(* C18                                                                     *)
(***************************************************************************)
\* The verdict of the validator on the URLs handed to pipelines.
ValidatorAccepts == [url \in Urls |-> is_supported_source(url)]

\* C18: every pipeline, and so every invocation of the extraction engine,
\* has a URL that is_supported_source accepts; a pipeline of inline mode
\* exists only for a suggestion that carried the button, and that suggestion
\* was answered for a supported URL.
C18_EngineOnlyForSupported ==
  \A r \in Requests :
    /\ ValidatorAccepts[task[r].url]
    /\ engine_calls[r] > 0 => ValidatorAccepts[task[r].url]
    /\ task[r].mode = "inline" =>
         /\ InlineAnswerOf[task[r].text].reply_markup
         /\ ValidatorAccepts[ExtractedUrl[task[r].text][1]]
         /\ task[r].url = ExtractedUrl[task[r].text][1]

\* The engine was invoked for a request of each mode.
C18_Witness ==
  \E r1, r2 \in Requests :
    /\ task[r1].mode = "inline"
    /\ task[r2].mode = "direct"
    /\ engine_calls[r1] = 1
    /\ engine_calls[r2] = 1

(***************************************************************************)
(* C19                                                                     *)
(***************************************************************************)
\* "best", "720", "480"
TierBest == <<"b", "e", "s", "t">>
Tier720 == <<"7", "2", "0">>
Tier480 == <<"4", "8", "0">>

\* The payloads that name no valid value.
InvalidPayloads ==
  {<<"q", "1", "0", "8", "0">>, <<"l", "i", "n", "k">>, <<"f", "i", "l", "e", "2">>}

\* The defaults of UserSettings.
Defaults == [video_quality |-> TierBest, add_link |-> TRUE, send_as_file |-> FALSE]

\* The fields in which an entry differs from the defaults.
ChangedFields(settings) == {f \in DOMAIN Defaults : settings[f] # Defaults[f]}

\* Any step of any pipeline.
AnyPipelineStep ==
  \E r \in 1..MaxReq :
    \/ PipelineStep(r)
    \/ \E res \in EngineOutcomes : DownloadFinish(r, res)

\* Every stored entry has a valid tier and boolean flags.
StoredEntriesValid ==
  \A u \in DOMAIN per_user_settings :
    /\ per_user_settings[u].video_quality \in {TierBest, Tier720, Tier480}
    /\ per_user_settings[u].add_link \in BOOLEAN
    /\ per_user_settings[u].send_as_file \in BOOLEAN

\* C19: every stored entry has a tier in {best, 720, 480}; no entry is ever
\* removed; an entry appears with the defaults, changed at most by the one
\* valid button press whose handler created it; a press with an invalid
\* payload leaves every stored entry as it was; and no pipeline step changes
\* the store.
C19_StoreInvariants ==
  [][/\ StoredEntriesValid
     /\ StoredEntriesValid'
     /\ \A u \in DOMAIN per_user_settings : u \in DOMAIN per_user_settings'
     /\ \A u \in DOMAIN per_user_settings' \ DOMAIN per_user_settings :
          /\ Cardinality(ChangedFields(per_user_settings'[u])) <= 1
          /\ (\E c \in ChatTypes : OnSettings(u, c, TRUE)) =>
               per_user_settings'[u] = Defaults
          /\ (\E q \in InlineQueries : OnChosen(u, q)) =>
               per_user_settings'[u] = Defaults
          /\ (\E c \in ChatTypes, t \in Texts : OnTextMessage(u, c, t, TRUE)) =>
               per_user_settings'[u] = Defaults
     /\ per_user_settings' # per_user_settings =>
          /\ ~AnyPipelineStep
          /\ (\E u \in Users, data \in InvalidPayloads :
                OnSettingsButton(u, data, TRUE)) =>
               /\ \A v \in DOMAIN per_user_settings :
                    per_user_settings'[v] = per_user_settings[v]
               /\ \A v \in DOMAIN per_user_settings' \ DOMAIN per_user_settings :
                    per_user_settings'[v] = Defaults
    ]_vars

\* One user's entry was changed by a button, another user's entry was
\* created by a press with an invalid payload or by a request and holds the
\* defaults, and a pipeline has run to its end.
C19_Witness ==
  /\ \E u, v \in DOMAIN per_user_settings :
       /\ per_user_settings[u] # Defaults
       /\ per_user_settings[v] = Defaults
  /\ \E r \in Requests : pc[r] \in Ended

(***************************************************************************)
(* C20                                                                     *)
(***************************************************************************)
\* The next transport call of request r reads the downloaded file: the
\* upload to the cache chat in inline mode, the media edit in direct mode.
ReadsFile(r) ==
  \/ pc[r] = "uploading"
  \/ pc[r] = "edit_media" /\ task[r].mode = "direct"

\* C20: from the end of the download until the call that reads the file has
\* completed, the workspace of the request exists and holds the file, and
\* the call, when it completes, has read the bytes this request's download
\* wrote.
C20_ReadsInsideWorkspace ==
  [][\A r \in Requests :
       ReadsFile(r) =>
         LET d == local[r].tmp_dir[1]
             path == local[r].file_path[1]
         IN  /\ d \in DOMAIN fs
             /\ fs[d].owner = r
             /\ path.dir = d
             /\ \E f \in fs[d].files : f.name = path.name /\ f.content = [by |-> r]
             /\ pc'[r] # pc[r] =>
                  /\ Len(uploads'[r]) = Len(uploads[r]) + 1
                  /\ uploads'[r][Len(uploads'[r])].content = [by |-> r]
    ]_vars

\* An inline request has uploaded its file and ended, its workspace is gone,
\* and a direct request is about to send its file with the media edit.
C20_Witness ==
  \E r, q \in Requests :
    /\ task[q].mode = "inline" /\ pc[q] \in Ended /\ Len(uploads[q]) = 1
    /\ \A d \in DOMAIN fs : fs[d].owner # q
    /\ task[r].mode = "direct" /\ pc[r] = "edit_media"

====
